---- MODULE Spec2Model ----
(***************************************************************************)
(* TileSummarizingProcessor.process of granule_ingester: the summary of a  *)
(* tile (bounding box, value range, count, latitude-weighted mean, time    *)
(* extent, standard name) computed from the tile's arrays and written to   *)
(* the tile's summary message.                                             *)
(*                                                                         *)
(* Numbers.  A float is a record [k, n, d]: k = "fin" is the rational n/d  *)
(* in lowest terms with d > 0, k = "inf" is +Inf (n = 1) or -Inf (n = -1), *)
(* k = "nan" is NaN.  Arithmetic is exact: binary rounding (and the        *)
(* float32 width of the summary's fields) is not modelled.  Latitudes are  *)
(* drawn from angles whose cosine is a multiple of 1/2; a weight is held   *)
(* at twice its value, which no weighted mean depends on.                  *)
(***************************************************************************)
EXTENDS Integers, Sequences, FiniteSets, TLC

VARIABLES tile, dataset, pre, outcomes

vars == <<tile, dataset, pre, outcomes>>

(* ------------------------------ bounds -------------------------------- *)

MaxLat == 2

MaxLon == 2

MaxCells == 4

MaxTime == 2

MaxCalls == 2

(* ------------------------------ floats -------------------------------- *)

NaN == [k |-> "nan", n |-> 0, d |-> 1]

PInf == [k |-> "inf", n |-> 1, d |-> 1]

NInf == [k |-> "inf", n |-> -1, d |-> 1]

Abs(x) == IF x < 0 THEN -x ELSE x

RECURSIVE GCD(_, _)
GCD(a, b) == IF b = 0 THEN a ELSE GCD(b, a % b)

\* the rational n/d (d # 0) in lowest terms
Rat(n, d) ==
    LET g == GCD(Abs(n), Abs(d))
        s == IF d < 0 THEN -1 ELSE 1
    IN  [k |-> "fin", n |-> (s * n) \div g, d |-> (s * d) \div g]

Fin(x) == [k |-> "fin", n |-> x, d |-> 1]

isnan(x) == x.k = "nan"

isfinite(x) == x.k = "fin"

\* a <= b as IEEE compares: false when either side is NaN
Leq(a, b) ==
    CASE isnan(a) \/ isnan(b) -> FALSE
      [] a.k = "inf" /\ b.k = "inf" -> a.n <= b.n
      [] a.k = "inf" -> a.n < 0
      [] b.k = "inf" -> b.n > 0
      [] OTHER -> a.n * b.d <= b.n * a.d

RECURSIVE SumOver(_, _)
SumOver(f, S) ==
    IF S = {} THEN 0
    ELSE LET i == CHOOSE j \in S : TRUE IN f[i] + SumOver(f, S \ {i})

Indices(a) == 1..Len(a)

(* ------------------------------- numpy -------------------------------- *)

\* numpy.ma.masked_invalid: the array with every non-finite entry masked
masked_invalid(a) ==
    [data |-> a, mask |-> [i \in Indices(a) |-> ~isfinite(a[i])]]

\* numpy.nanmin of a plain array: NaN is skipped, +/-Inf is not
nanmin(a) ==
    LET S == {i \in Indices(a) : ~isnan(a[i])}
    IN  IF S = {} THEN NaN
        ELSE a[CHOOSE i \in S : \A j \in S : Leq(a[i], a[j])]

nanmax(a) ==
    LET S == {i \in Indices(a) : ~isnan(a[i])}
    IN  IF S = {} THEN NaN
        ELSE a[CHOOSE i \in S : \A j \in S : Leq(a[j], a[i])]

\* numpy.nanmin / nanmax of a masked array: over the entries not masked
\* (the model's coordinate arrays hold at least one)
ma_nanmin(m) ==
    LET S == {i \in Indices(m.data) : ~m.mask[i]}
    IN  IF S = {} THEN NaN
        ELSE m.data[CHOOSE i \in S : \A j \in S : Leq(m.data[i], m.data[j])]

ma_nanmax(m) ==
    LET S == {i \in Indices(m.data) : ~m.mask[i]}
    IN  IF S = {} THEN NaN
        ELSE m.data[CHOOSE i \in S : \A j \in S : Leq(m.data[j], m.data[i])]

\* numpy.count_nonzero(numpy.isnan(data))
count_nan(a) == Cardinality({i \in Indices(a) : isnan(a[i])})

\* numpy.nanmean of a plain array: the mean of the entries that are not NaN;
\* an infinite entry makes it infinite, +Inf with -Inf makes it NaN
nanmean(a) ==
    LET S == {i \in Indices(a) : ~isnan(a[i])}
        F == {i \in S : isfinite(a[i])}
        hasP == \E i \in S : a[i] = PInf
        hasN == \E i \in S : a[i] = NInf
    IN  CASE S = {} -> NaN
          [] hasP /\ hasN -> NaN
          [] hasP -> PInf
          [] hasN -> NInf
          [] OTHER -> Rat(SumOver([i \in F |-> a[i].n], F), Cardinality(F))

\* numpy.repeat(a, n) of a plain sequence: each entry n times, in order
RECURSIVE RepeatEntry(_, _)
RepeatEntry(x, n) == IF n = 0 THEN <<>> ELSE <<x>> \o RepeatEntry(x, n - 1)

RECURSIVE RepeatSeq(_, _)
RepeatSeq(a, n) ==
    IF a = <<>> THEN <<>> ELSE RepeatEntry(Head(a), n) \o RepeatSeq(Tail(a), n)

\* the whole array n times over (numpy.tile), where numpy.repeat was meant
RECURSIVE TileSeq(_, _)
TileSeq(a, n) == IF n = 0 THEN <<>> ELSE a \o TileSeq(a, n - 1)

tiled(m, n) == [data |-> TileSeq(m.data, n), mask |-> TileSeq(m.mask, n)]

\* numpy.repeat of a masked array: data and mask are repeated alike
repeat(m, n) == [data |-> RepeatSeq(m.data, n), mask |-> RepeatSeq(m.mask, n)]

\* 2 * cos(radians(deg)) at the angles the model draws
cos_radians_x2(deg) ==
    CASE deg = 0 -> 2
      [] deg = 60 \/ deg = -60 -> 1
      [] deg = 120 -> -1
      [] deg = 180 -> -2

\* numpy.cos(numpy.radians(latitudes)) of a masked array: the mask is kept
cos_radians(m) ==
    [data |-> [i \in Indices(m.data) |->
                  IF m.mask[i] THEN 0 ELSE cos_radians_x2(m.data[i].n)],
     mask |-> m.mask]

\* .item() of numpy.ma.masked, the result of a reduction with nothing left or
\* of a division by zero: the constant's underlying 0.0
masked_item == Fin(0)

\* numpy.ma.average(a, weights = wgt).item() with axis None: [err, value].
\* An entry masked in a or in wgt is left out of both sums.
ma_average(a, wgt) ==
    IF Len(a.data) # Len(wgt.data) THEN [err |-> "TypeError", value |-> NaN]
    ELSE LET used == {i \in Indices(a.data) : ~a.mask[i] /\ ~wgt.mask[i]}
             scl == SumOver([i \in used |-> wgt.data[i]], used)
             num == SumOver([i \in used |-> a.data[i].n * wgt.data[i]], used)
         IN  [err |-> "",
              value |-> IF used = {} \/ scl = 0 THEN masked_item
                        ELSE Rat(num, scl)]

(* --------------------------- the processor ---------------------------- *)

\* variable_data is held flattened in C order: element (i, j) of an L x M
\* block is entry (i - 1) * M + j
calculate_mean_for_grid_tile(variable_data, latitudes, longitudes) ==
    LET flattened_variable_data == masked_invalid(variable_data)
        repeated_latitudes == repeat(latitudes, Len(longitudes.data))
        weights == cos_radians(repeated_latitudes)
    IN  ma_average(flattened_variable_data, weights)

calculate_mean_for_swath_tile(variable_data, latitudes) ==
    LET weights == cos_radians(latitudes)
    IN  ma_average(masked_invalid(variable_data), weights)

\* [err, min, max]; a time is [kind |-> "int", value] or
\* [kind |-> "array", set, values].  An unset array has no bytes to decode and
\* an empty or all-NaN one has no minimum to convert: from_shaped_array,
\* numpy.nanmin or int() raises, and that is no NoTimeException.
find_time_min_max(time) ==
    CASE time.kind = "int" /\ time.value # 0 ->
            [err |-> "", min |-> time.value, max |-> time.value]
      [] time.kind = "int" ->
            [err |-> "NoTimeException", min |-> 0, max |-> 0]
      [] time.kind = "array" /\ ~time.set ->
            [err |-> "DecodeError", min |-> 0, max |-> 0]
      [] time.kind = "array" /\ isnan(nanmin(time.values)) ->
            [err |-> "ValueError", min |-> 0, max |-> 0]
      [] OTHER ->
            [err |-> "", min |-> nanmin(time.values).n,
             max |-> nanmax(time.values).n]

\* nexusproto.TileSummary(): every field at its default
TileSummary ==
    [dataset_name |-> "", granule |-> "", data_var_name |-> "",
     standard_name |-> "",
     bbox |-> [lat_min |-> Fin(0), lat_max |-> Fin(0),
               lon_min |-> Fin(0), lon_max |-> Fin(0)],
     stats |-> [min |-> Fin(0), max |-> Fin(0), mean |-> Fin(0),
                count |-> 0, min_time |-> 0, max_time |-> 0]]

\* a summary built from nothing on every call
fresh_summary(t) == TileSummary

\* line 52: the tile's own summary message when it has one
tile_summary_of(t) == IF t.has_summary THEN t.summary ELSE TileSummary

\* the count added to the one already there
add_count(tile_summary, data) ==
    [tile_summary EXCEPT !.stats.count = @ + (Len(data) - count_nan(data))]

\* line 61
set_count(tile_summary, data) ==
    [tile_summary EXCEPT !.stats.count = Len(data) - count_nan(data)]

\* lines 54-61
set_bbox_and_range(tile_summary, name, latitudes, longitudes, data) ==
    set_count([tile_summary EXCEPT
                  !.dataset_name = name,
                  !.bbox = [lat_min |-> ma_nanmin(latitudes),
                            lat_max |-> ma_nanmax(latitudes),
                            lon_min |-> ma_nanmin(longitudes),
                            lon_max |-> ma_nanmax(longitudes)],
                  !.stats.min = nanmin(data),
                  !.stats.max = nanmax(data)], data)

\* lines 65-75: [err, value]
mean_of(tile_type, data, latitudes, longitudes) ==
    CASE tile_type = "swath_tile" ->
            calculate_mean_for_swath_tile(data, latitudes)
      [] tile_type = "grid_tile" ->
            calculate_mean_for_grid_tile(data, latitudes, longitudes)
      [] OTHER -> [err |-> "", value |-> nanmean(data)]

\* attrs.get('standard_name') and the test of line 85
standard_name_of(attrs) ==
    IF attrs.has_standard_name THEN attrs.standard_name ELSE ""

\* process, lines 44-88, up to the write-back: [outcome, tile_summary], the
\* outcome "ok" or the exception raised, tile_summary the message as the
\* call leaves it
process(t, ds, name) ==
    LET latitudes == masked_invalid(t.latitude)
        longitudes == masked_invalid(t.longitude)
        data == t.variable_data
        s1 == set_bbox_and_range(tile_summary_of(t), name, latitudes,
                                 longitudes, data)
        m == mean_of(t.tile_type, data, latitudes, longitudes)
        s2 == [s1 EXCEPT !.stats.mean = m.value]
        tm == find_time_min_max(t.time)
        s3 == IF tm.err = "NoTimeException" THEN s2
              ELSE [s2 EXCEPT !.stats.min_time = tm.min,
                              !.stats.max_time = tm.max]
        standard_name == standard_name_of(ds[s3.data_var_name])
        s4 == IF standard_name # "" THEN
                  [s3 EXCEPT !.standard_name = standard_name]
              ELSE s3
    IN  CASE m.err # "" -> [outcome |-> m.err, tile_summary |-> s1]
          [] tm.err \notin {"", "NoTimeException"} ->
                [outcome |-> tm.err, tile_summary |-> s2]
          [] s3.data_var_name \notin DOMAIN ds ->
                [outcome |-> "KeyError", tile_summary |-> s3]
          [] OTHER -> [outcome |-> "ok", tile_summary |-> s4]

\* the dataset name the processor was constructed with
self_dataset_name == "test"

\* lines 52 and 88: tile_summary is the tile's own message when the tile has
\* a summary, so what the call assigned is on the tile however the call ends;
\* a new message reaches the tile only through CopyFrom
write_back(t, r) ==
    CASE r.outcome = "ok" ->
            [t EXCEPT !.summary = r.tile_summary, !.has_summary = TRUE]
      [] t.has_summary -> [t EXCEPT !.summary = r.tile_summary]
      [] OTHER -> t

(* ------------------------------ inputs -------------------------------- *)

SeqsUpTo(S, lo, hi) == UNION {[1..n -> S] : n \in lo..hi}

\* the layouts of nexusproto's TileData.tile_type the model draws
TileTypes ==
    {"swath_tile", "grid_tile", "grid_multi_variable_tile", "time_series_tile"}

LatValues == {Fin(0), Fin(60), Fin(120), NaN}

DataValues == {Fin(10), Fin(20), NaN, PInf}

TimeValues == {Fin(2), Fin(7), NaN}

LatRamp(n) == [i \in 1..n |-> Fin(60 * ((i - 1) % 2))]

LonRamp(n) == [i \in 1..n |-> Fin(10 * i)]

DataRamp(n) == [i \in 1..n |-> Fin(10 * i)]

DataVarNames == {"", "sst", "[\"b2\", \"b3\"]"}

VarKeys == {"", "sst"}

Attrs ==
    {[has_standard_name |-> FALSE, standard_name |-> ""],
     [has_standard_name |-> TRUE, standard_name |-> "sea_surface_temperature"]}

Datasets == UNION {[K -> Attrs] : K \in SUBSET VarKeys}

\* a scalar time: unset (0) or a timestamp
IntTimes == {[kind |-> "int", value |-> v] : v \in {0, 3}}

\* an array time: unset, or set to an array that may be empty
ArrayTimes ==
    {[kind |-> "array", set |-> FALSE, values |-> <<>>]}
    \cup {[kind |-> "array", set |-> TRUE, values |-> a] :
            a \in SeqsUpTo(TimeValues, 0, MaxTime)}

\* the time field of a layout: an array on swath and time series tiles, an
\* integer on the grid ones
TimesOf(type) ==
    IF type \in {"swath_tile", "time_series_tile"} THEN ArrayTimes ELSE IntTimes

\* a time process can read, of the layout's kind
SomeTime(type) ==
    IF type \in {"swath_tile", "time_series_tile"}
    THEN [kind |-> "array", set |-> TRUE, values |-> <<Fin(2), Fin(7)>>]
    ELSE [kind |-> "int", value |-> 3]

\* a summary an earlier stage left on the tile
StaleSummary(name) ==
    [dataset_name |-> "old", granule |-> "granule.nc", data_var_name |-> name,
     standard_name |-> "stale_name",
     bbox |-> [lat_min |-> Fin(1), lat_max |-> Fin(2),
               lon_min |-> Fin(3), lon_max |-> Fin(4)],
     stats |-> [min |-> Fin(5), max |-> Fin(6), mean |-> Fin(7),
                count |-> 8, min_time |-> 5, max_time |-> 9]]

\* [has_summary, summary]: none, one with only granule and data_var_name set
\* (as the reading processors leave it), one with every field set
PriorSummaries ==
    {[has_summary |-> FALSE, summary |-> TileSummary]}
    \cup {[has_summary |-> TRUE,
           summary |-> [TileSummary EXCEPT !.granule = "granule.nc",
                                           !.data_var_name = name]] :
            name \in DataVarNames}
    \cup {[has_summary |-> TRUE, summary |-> StaleSummary(name)] :
            name \in DataVarNames}

HasFinite(a) == \E i \in Indices(a) : isfinite(a[i])

Tile(type, lat, lon, data, time, prior) ==
    [tile_type |-> type, latitude |-> lat, longitude |-> lon,
     variable_data |-> data, time |-> time,
     has_summary |-> prior.has_summary, summary |-> prior.summary]

(* --------------------------- specifications --------------------------- *)

\* the entries variable_data holds when it fits the coordinate arrays: one
\* for each latitude of a swath, one for each cell of a grid
Cells(type, L, M) == IF type = "swath_tile" THEN L ELSE L * M

\* every prior summary, time and dataset, over coordinate axes of every
\* length and a variable_data of L * M or L * M + 1 entries (L * M fits a
\* grid, and a swath when M = 1)
Init ==
    /\ \E type \in TileTypes, L \in 1..MaxLat, M \in 1..MaxLon,
          n \in {0, 1}, prior \in PriorSummaries :
            \E time \in TimesOf(type) :
                tile = Tile(type, LatRamp(L), LonRamp(M), DataRamp(L * M + n),
                            time, prior)
    /\ dataset \in Datasets
    /\ pre = [tile |-> tile, dataset |-> dataset]
    /\ outcomes = <<>>

\* every latitude and data array of fitting shapes, with a summary, time and
\* dataset that let the call succeed
InitStats ==
    /\ \E type \in TileTypes, lat \in SeqsUpTo(LatValues, 1, MaxLat),
          M \in 1..MaxLon :
            /\ HasFinite(lat)
            /\ Cells(type, Len(lat), M) <= MaxCells
            /\ \E data \in [1..Cells(type, Len(lat), M) -> DataValues] :
                 tile = Tile(type, lat, LonRamp(M), data, SomeTime(type),
                             [has_summary |-> TRUE,
                              summary |-> [TileSummary EXCEPT
                                              !.granule = "granule.nc",
                                              !.data_var_name = "sst"]])
    /\ dataset = [k \in {"sst"} |->
                    [has_standard_name |-> TRUE,
                     standard_name |-> "sea_surface_temperature"]]
    /\ pre = [tile |-> tile, dataset |-> dataset]
    /\ outcomes = <<>>

\* one call of process on the tile
Process ==
    /\ Len(outcomes) < MaxCalls
    /\ LET r == process(tile, dataset, self_dataset_name)
       IN  /\ tile' = write_back(tile, r)
           /\ outcomes' = Append(outcomes, r.outcome)
    /\ pre' = [tile |-> tile, dataset |-> dataset]
    /\ UNCHANGED dataset

Next == Process

Spec == Init /\ [][Next]_vars

SpecStats == InitStats /\ [][Next]_vars

(* ------------------------------ claims -------------------------------- *)

called == Len(outcomes) > 0

last == outcomes[Len(outcomes)]

\* the tile and the dataset the last call was given
before == pre.tile

NonFinite(a) == {i \in Indices(a) : ~isfinite(a[i])}

Valid(a) == {i \in Indices(a) : isfinite(a[i])}

\* C1: a second call of process on the tile the first call returned, with
\* the same dataset and dataset name, leaves a summary equal field by field
\* to the one the first call left.
C1_SecondCallSameSummary ==
    (Len(outcomes) >= 2 /\ last = "ok" /\ outcomes[Len(outcomes) - 1] = "ok")
        => tile.summary = before.summary

\* C1's case: two successful calls on a tile that came with every summary
\* field set and no time, so that the carried-over time extent is compared too
C1_Witness ==
    /\ outcomes = <<"ok", "ok">>
    /\ tile.time = [kind |-> "int", value |-> 0]
    /\ tile.summary.stats.max_time = 9
    /\ tile.summary.standard_name = "sea_surface_temperature"

\* C2: when variable_data has a finite sample, the summary of a successful
\* call has stats.min <= stats.mean <= stats.max, whatever the latitudes.
C2_MeanWithinRange ==
    (called /\ last = "ok" /\ Valid(tile.variable_data) # {})
        => /\ Leq(tile.summary.stats.min, tile.summary.stats.mean)
           /\ Leq(tile.summary.stats.mean, tile.summary.stats.max)

\* C3: stats.count is the number of entries of variable_data less the
\* number of non-finite ones, NaN and +/-Inf alike.
C3_CountIsFiniteCount ==
    (called /\ last = "ok")
        => tile.summary.stats.count =
              Len(tile.variable_data)
                 - Cardinality(NonFinite(tile.variable_data))

\* a time that is absent: the scalar unset (0), the array unset or empty
TimeAbsent(time) ==
    \/ time.kind = "int" /\ time.value = 0
    \/ time.kind = "array" /\ (~time.set \/ time.values = <<>>)

\* C4: a call on a tile whose time is absent does not raise, and leaves
\* stats.min_time and stats.max_time unset, whatever the prior summary held
\* (stated over the calls that no mismatched shape or missing variable ends).
C4_AbsentTimeLeavesTimesUnset ==
    (called /\ TimeAbsent(before.time) /\ last \notin {"TypeError", "KeyError"})
        => /\ last = "ok"
           /\ tile.summary.stats.min_time = 0
           /\ tile.summary.stats.max_time = 0

\* the lookup of line 84 finds no standard name: no such variable, or a
\* variable without the attribute
LookupMisses ==
    \/ before.summary.data_var_name \notin DOMAIN pre.dataset
    \/ ~pre.dataset[before.summary.data_var_name].has_standard_name

\* C5: when data_var_name is no variable of the dataset, or the variable has
\* no standard_name, the call raises nothing, computes the other fields and
\* leaves standard_name as it was (stated over the calls that reach the
\* lookup).
C5_LookupIsBestEffort ==
    (called /\ LookupMisses
        /\ last \notin {"TypeError", "DecodeError", "ValueError"})
        => /\ last = "ok"
           /\ tile.summary.dataset_name = self_dataset_name
           /\ tile.summary.standard_name = before.summary.standard_name

\* C6: a call that raises leaves on the tile exactly the summary the tile
\* had before the call.
C6_FailedCallLeavesSummary ==
    (called /\ last # "ok")
        => /\ tile.summary = before.summary
           /\ tile.has_summary = before.has_summary

\* C7: a successful call changes nothing but the summary's dataset_name,
\* bbox, stats and standard_name: the layout, its arrays and time, the
\* summary's granule and data_var_name and the dataset are as before.
C7_OnlySummaryFieldsChange ==
    (called /\ last = "ok")
        => /\ tile.tile_type = before.tile_type
           /\ tile.latitude = before.latitude
           /\ tile.longitude = before.longitude
           /\ tile.variable_data = before.variable_data
           /\ tile.time = before.time
           /\ tile.summary.granule = before.summary.granule
           /\ tile.summary.data_var_name = before.summary.data_var_name
           /\ dataset = pre.dataset

\* C7's case: a successful call that rewrote a summary holding a granule
C7_Witness ==
    /\ called /\ last = "ok"
    /\ before.summary.granule = "granule.nc"
    /\ before.summary.dataset_name = "old"
    /\ tile.summary.dataset_name = "test"
    /\ tile.summary.standard_name # before.summary.standard_name

\* the mean C8 states: the sum of data[k] * w(latitude[k]) over the finite
\* entries of data, over the sum of w(latitude[k]) over the same entries
ClaimedSwathMean(data, lat) ==
    LET V == Valid(data)
        wsum == SumOver([k \in V |-> cos_radians_x2(lat[k].n)], V)
        num == SumOver([k \in V |-> data[k].n * cos_radians_x2(lat[k].n)], V)
    IN  CASE \E k \in V : ~isfinite(lat[k]) -> NaN
          [] wsum = 0 /\ num = 0 -> NaN
          [] wsum = 0 -> IF num > 0 THEN PInf ELSE NInf
          [] OTHER -> Rat(num, wsum)

\* C8: on a swath with aligned arrays and a finite sample, stats.mean is
\* the weighted mean over the finite entries of variable_data, the entries
\* that stats.count counts and stats.min and stats.max range over.
C8_SwathMeanOverValidSamples ==
    (called /\ last = "ok" /\ tile.tile_type = "swath_tile"
        /\ Valid(tile.variable_data) # {})
        => LET data == tile.variable_data
               V == Valid(data)
           IN  /\ tile.summary.stats.mean
                    = ClaimedSwathMean(data, tile.latitude)
               /\ tile.summary.stats.count = Cardinality(V)
               /\ \E k \in V : tile.summary.stats.min = data[k]
               /\ \E k \in V : tile.summary.stats.max = data[k]

\* the latitude of each entry of an L x M block held latitude-major: entry
\* (i - 1) * M + j has latitude[i]
ElementLatitudes(lat, M) ==
    [k \in 1..(Len(lat) * M) |-> lat[((k - 1) \div M) + 1]]

\* C9: on a grid, stats.mean is the mean the swath computation gives for the
\* same data with, for each entry, the latitude of its row.
C9_GridMeanIsSwathMean ==
    (called /\ last = "ok" /\ tile.tile_type = "grid_tile")
        => LET sw == calculate_mean_for_swath_tile(
                        tile.variable_data,
                        masked_invalid(ElementLatitudes(
                            tile.latitude, Len(tile.longitude))))
           IN  sw.err = "" /\ tile.summary.stats.mean = sw.value

\* C9's case: a 2 x 2 grid with two different row weights, a sample that is
\* not finite, and a mean that is none of the samples
C9_Witness ==
    /\ called /\ last = "ok" /\ tile.tile_type = "grid_tile"
    /\ Len(tile.latitude) = 2 /\ Len(tile.longitude) = 2
    /\ tile.latitude = <<Fin(0), Fin(60)>>
    /\ NonFinite(tile.variable_data) # {}
    /\ tile.summary.stats.mean.d # 1

\* C10: a scalar time t gives stats.min_time = stats.max_time = t, for t = 0
\* too; an array time gives the minimum and the maximum of its valid entries.
C10_TimeExtent ==
    (called /\ last = "ok")
        => /\ before.time.kind = "int"
                => /\ tile.summary.stats.min_time = before.time.value
                   /\ tile.summary.stats.max_time = before.time.value
           /\ before.time.kind = "array"
                => /\ tile.summary.stats.min_time <= tile.summary.stats.max_time
                   /\ Fin(tile.summary.stats.min_time) = nanmin(before.time.values)
                   /\ Fin(tile.summary.stats.max_time) = nanmax(before.time.values)

====
